---- MODULE Spec2Model ----
(***************************************************************************)
(* Model of crypto_research/malz_vol_smile_approximation.ipynb: the Malz   *)
(* approximation of a volatility smile.  The notebook is a straight-line   *)
(* program; every group of statements is one action and pc records how far *)
(* the run has got.  Python floats are modelled as exact rationals         *)
(* [num, den] in lowest terms, and a float NaN as the value NaN below.     *)
(***************************************************************************)
EXTENDS Integers, Sequences, FiniteSets

VARIABLES pc, df, maturities, calls, puts, avg_price, atm_iv, put_25D_iv,
          call_25D_iv, rr25D_iv, fly25D_iv, put_delta_aprx, sorted_puts,
          plot_line, scatter, ev_args, ev_ret

vars == <<pc, df, maturities, calls, puts, avg_price, atm_iv, put_25D_iv,
          call_25D_iv, rr25D_iv, fly25D_iv, put_delta_aprx, sorted_puts,
          plot_line, scatter, ev_args, ev_ret>>

(***************************************************************************)
(* Bounds of the model.                                                    *)
(***************************************************************************)
\* rows of options_data.csv
MaxQuotes == 2
\* risk reversal, butterfly and ATM arguments of the evaluator run over
\* the halves between -MaxParam and MaxParam
MaxParam == 1
\* the deltas handed to the normalizer alone are the multiples of
\* 1/(100 * DeltaResolution) in [0, 1]
DeltaResolution == 2
\* markers handed to the parameter calculator run over the hundredths from
\* 0.20 to MaxMarkerPct/100
MaxMarkerPct == 24

(***************************************************************************)
(* Float arithmetic, exact.  den > 0 is a number, den = 0 is NaN, and      *)
(* Unbound stands for a Python name that no statement has assigned yet.    *)
(***************************************************************************)
NaN == [num |-> 0, den |-> 0]

Unbound == [num |-> 0, den |-> -1]

IsNaN(x) == x.den = 0

Abs(n) == IF n < 0 THEN -n ELSE n

RECURSIVE GCD(_, _)
GCD(a, b) == IF b = 0 THEN a ELSE GCD(b, a % b)

Rat(n, d) ==
    LET g == GCD(Abs(n), d)
    IN  [num |-> n \div g, den |-> d \div g]

R(n) == [num |-> n, den |-> 1]

Half == [num |-> 1, den |-> 2]

FAdd(x, y) ==
    IF IsNaN(x) \/ IsNaN(y) THEN NaN
    ELSE Rat(x.num * y.den + y.num * x.den, x.den * y.den)

FSub(x, y) ==
    IF IsNaN(x) \/ IsNaN(y) THEN NaN
    ELSE Rat(x.num * y.den - y.num * x.den, x.den * y.den)

FMul(x, y) ==
    IF IsNaN(x) \/ IsNaN(y) THEN NaN
    ELSE Rat(x.num * y.num, x.den * y.den)

\* x / y; 0/0 is NaN as in numpy (the notebook never divides by another zero)
FDiv(x, y) ==
    IF IsNaN(x) \/ IsNaN(y) \/ y.num = 0 THEN NaN
    ELSE IF y.num > 0 THEN Rat(x.num * y.den, x.den * y.num)
    ELSE Rat(-(x.num * y.den), x.den * (-y.num))

FAbs(x) == IF IsNaN(x) THEN NaN ELSE [num |-> Abs(x.num), den |-> x.den]

\* comparisons with NaN are False, as for floats
FLeq(x, y) == ~IsNaN(x) /\ ~IsNaN(y) /\ x.num * y.den <= y.num * x.den

FEq(x, y) == ~IsNaN(x) /\ ~IsNaN(y) /\ x.num * y.den = y.num * x.den

Floor(x) == x.num \div x.den

Ceil(x) == -((-x.num) \div x.den)

\* round to the nearest integer, a tie to the even one (numpy rint, Python round)
Rint(x) ==
    LET f == Floor(x)
        twice == 2 * (x.num - f * x.den)
    IN  IF twice < x.den THEN f
        ELSE IF twice > x.den THEN f + 1
        ELSE IF f % 2 = 0 THEN f ELSE f + 1

\* round(-1) with ties away from zero for ties to even
RoundTensHalfUp(x) ==
    IF IsNaN(x) THEN NaN
    ELSE LET q == FDiv(x, R(10))
             f == Floor(q)
         IN  R(10 * (IF 2 * (q.num - f * q.den) >= q.den THEN f + 1 ELSE f))

\* Series.round(-1): numpy rounds x/10 to an integer and multiplies by 10
RoundTens(x) == IF IsNaN(x) THEN NaN ELSE R(10 * Rint(FDiv(x, R(10))))

\* Python's round(x) with no digits
PyRound(x) == R(Rint(x))

RECURSIVE SumOver(_, _)
SumOver(s, i) ==
    IF i > Len(s) THEN R(0) ELSE FAdd(s[i], SumOver(s, i + 1))

\* Series.mean(): the mean of no value is NaN
Mean(s) == FDiv(SumOver(s, 1), R(Len(s)))

RECURSIVE SelectRows(_, _, _)
\* df[mask]: the rows whose mask entry is true, in order
SelectRows(rows, mask, i) ==
    IF i > Len(rows) THEN <<>>
    ELSE (IF mask[i] THEN <<rows[i]>> ELSE <<>>) \o SelectRows(rows, mask, i + 1)

Column(rows, f) == [i \in 1..Len(rows) |-> rows[i][f]]

Range(s) == {s[i] : i \in 1..Len(s)}

(***************************************************************************)
(* The quotes a snapshot can hold.                                         *)
(***************************************************************************)
Sides == <<"call", "put">>

Expiries == <<1, 2>>

Strikes == <<90, 111>>

UnderlyingPrices == <<100, 101>>

\* |delta| of a quote; calls carry delta, puts carry -delta
AbsDeltas == <<Rat(25, 100), Rat(30, 100), Rat(35, 100)>>

\* (bid_iv, ask_iv)
IvQuotes == <<<<0, 0>>, <<1, 2>>>>

\* the j-th of n consecutive choices among the entries of s
Pick(s, j, n) == s[((j \div n) % Len(s)) + 1]

QuoteCount ==
    Len(Sides) * Len(Expiries) * Len(Strikes) * Len(UnderlyingPrices)
        * Len(AbsDeltas) * Len(IvQuotes)

\* the j-th quote of the value sets above, j in 0..QuoteCount-1
QuoteRow(j) ==
    LET s == Pick(Sides, j, 1)
        e == Pick(Expiries, j, Len(Sides))
        k == Pick(Strikes, j, Len(Sides) * Len(Expiries))
        u == Pick(UnderlyingPrices, j, Len(Sides) * Len(Expiries) * Len(Strikes))
        d == Pick(AbsDeltas, j,
                  Len(Sides) * Len(Expiries) * Len(Strikes) * Len(UnderlyingPrices))
        q == Pick(IvQuotes, j,
                  Len(Sides) * Len(Expiries) * Len(Strikes) * Len(UnderlyingPrices)
                      * Len(AbsDeltas))
    IN  [option_type |-> s, strike |-> k, bid_iv |-> R(q[1]), ask_iv |-> R(q[2]),
         underlying_price |-> u, expiration_timestamp |-> e,
         delta |-> IF s = "call" THEN d ELSE FSub(R(0), d)]

QuoteList == [j \in 1..QuoteCount |-> QuoteRow(j - 1)]

\* the instrument a row quotes (its instrument_name)
Instrument(row) == <<row.option_type, row.strike, row.expiration_timestamp>>

\* The snapshots of n rows: every instrument is quoted at most once.  No
\* statement of the notebook depends on the order of the rows (its only use is
\* the enumeration order of set(), which SelectMaturity leaves open), so one
\* order of every set of rows is kept.
IsSnapshotIndex(ix, n) ==
    \A i, j \in 1..n :
        i < j => /\ ix[i] < ix[j]
                 /\ Instrument(QuoteList[ix[i]]) # Instrument(QuoteList[ix[j]])

SnapshotOf(ix, n) == [i \in 1..n |-> QuoteList[ix[i]]]

(***************************************************************************)
(* The statements of the notebook, as operators.                           *)
(***************************************************************************)
\* list(set(df.expiration_timestamp)): the distinct expiries in an enumeration
\* order the language leaves open (for ints it follows the hash slots and, on a
\* collision, the order of the rows)
SetEnumerations(S) ==
    {m \in [1..Cardinality(S) -> S] : \A i, j \in 1..Cardinality(S) : m[i] = m[j] => i = j}

\* the selection that keeps every row
SelectExpiryKeepsAll(rows, m) == rows

\* df[df.expiration_timestamp == maturities[0]]
SelectExpiry(rows, m) ==
    SelectRows(rows, [i \in 1..Len(rows) |-> rows[i].expiration_timestamp = m[1]], 1)

\* df['mid_iv'] = (df.bid_iv + df.ask_iv)/2
\* mid_iv as bid_iv + ask_iv, not halved
WithMidIvSum(rows) ==
    [i \in 1..Len(rows) |->
        [option_type |-> rows[i].option_type, strike |-> rows[i].strike,
         bid_iv |-> rows[i].bid_iv, ask_iv |-> rows[i].ask_iv,
         underlying_price |-> rows[i].underlying_price,
         expiration_timestamp |-> rows[i].expiration_timestamp,
         delta |-> rows[i].delta,
         mid_iv |-> FAdd(rows[i].bid_iv, rows[i].ask_iv)]]

WithMidIv(rows) ==
    [i \in 1..Len(rows) |->
        [option_type |-> rows[i].option_type, strike |-> rows[i].strike,
         bid_iv |-> rows[i].bid_iv, ask_iv |-> rows[i].ask_iv,
         underlying_price |-> rows[i].underlying_price,
         expiration_timestamp |-> rows[i].expiration_timestamp,
         delta |-> rows[i].delta,
         mid_iv |-> FDiv(FAdd(rows[i].bid_iv, rows[i].ask_iv), R(2))]]

\* df[df.option_type == side]
OfSide(rows, side) ==
    SelectRows(rows, [i \in 1..Len(rows) |-> rows[i].option_type = side], 1)

\* ((calls.delta)*100).round(-1)
CallBucket(delta) == RoundTens(FMul(delta, R(100)))

\* the put rule without abs()
PutBucketSigned(delta) == RoundTens(FMul(delta, R(100)))

\* (abs(puts.delta)*100).round(-1)
PutBucket(delta) == RoundTens(FMul(FAbs(delta), R(100)))

\* calls['delta'] = ...: the delta column of the copy is overwritten by the bucket
BucketCalls(rows) ==
    [i \in 1..Len(rows) |-> [rows[i] EXCEPT !.delta = CallBucket(@)]]

BucketPuts(rows) ==
    [i \in 1..Len(rows) |-> [rows[i] EXCEPT !.delta = PutBucket(@)]]

\* the +/- $10 of the ATM window
AtmWindow == 10

\* round(df.underlying_price.mean())
AvgPrice(rows) ==
    PyRound(Mean([i \in 1..Len(rows) |-> R(rows[i].underlying_price)]))

\* the window with its ends left out
AtmRowsOpenWindow(rows, avg) ==
    SelectRows(rows,
        [i \in 1..Len(rows) |->
            /\ ~FLeq(R(rows[i].strike), FSub(avg, R(AtmWindow)))
            /\ ~FLeq(FAdd(avg, R(AtmWindow)), R(rows[i].strike))], 1)

\* df[(df.strike.values >= avg_price -10) & (df.strike.values <= avg_price +10)]
AtmRows(rows, avg) ==
    SelectRows(rows,
        [i \in 1..Len(rows) |->
            /\ FLeq(FSub(avg, R(AtmWindow)), R(rows[i].strike))
            /\ FLeq(R(rows[i].strike), FAdd(avg, R(AtmWindow)))], 1)

\* the selection without its second bucket
Delta25RowsOnly20(rows) ==
    SelectRows(rows, [i \in 1..Len(rows) |-> FEq(rows[i].delta, R(20))], 1)

\* rows[(rows.delta == 20) | (rows.delta == 30)]
Delta25Rows(rows) ==
    SelectRows(rows,
        [i \in 1..Len(rows) |->
            FEq(rows[i].delta, R(20)) \/ FEq(rows[i].delta, R(30))], 1)

\* rows.mid_iv.mean()
MeanMidIv(rows) == Mean(Column(rows, "mid_iv"))

\* the risk reversal with its operands exchanged
RiskReversalSwapped(call25, put25) == FSub(put25, call25)

\* rr25D_iv = call_25D_iv - put_25D_iv
RiskReversal(call25, put25) == FSub(call25, put25)

\* the butterfly without the halving of the wing sum
ButterflyNoHalf(call25, put25, atm) == FSub(FAdd(call25, put25), atm)

\* fly25D_iv = (call_25D_iv + put_25D_iv)/2 - atm_iv
Butterfly(call25, put25, atm) == FSub(FDiv(FAdd(call25, put25), R(2)), atm)

\* put_delta_iv with the curvature coefficient 8 for 16
put_delta_iv_Coefficient8(delta, rr, fly, atm) ==
    LET x == FSub(delta, Half)
    IN  FAdd(FAdd(atm, FMul(FMul(R(2), rr), x)),
             FMul(FMul(R(8), fly), FMul(x, x)))

\* put_delta_iv with the skew coefficient 1 for 2
put_delta_iv_SkewCoefficient1(delta, rr, fly, atm) ==
    LET x == FSub(delta, Half)
    IN  FAdd(FAdd(atm, FMul(rr, x)), FMul(FMul(R(16), fly), FMul(x, x)))

\* put_delta_iv with the cube of (delta - 0.50) for its square
put_delta_iv_CubicSmile(delta, rr, fly, atm) ==
    LET x == FSub(delta, Half)
    IN  FAdd(FAdd(atm, FMul(FMul(R(2), rr), x)),
             FMul(FMul(R(16), fly), FMul(x, FMul(x, x))))

\* def put_delta_iv: atm + 2*rr*(delta-0.50) + 16*fly*((delta-0.50))**2
put_delta_iv(delta, rr, fly, atm) ==
    LET x == FSub(delta, Half)
    IN  FAdd(FAdd(atm, FMul(FMul(R(2), rr), x)),
             FMul(FMul(R(16), fly), FMul(x, x)))

\* arange with its stop included
ArangeWithStop(start, stop, step) ==
    [i \in 1..(Floor(FDiv(FSub(stop, start), step)) + 1) |->
        FAdd(start, FMul(R(i - 1), step))]

\* np.arange(start, stop, step): ceil((stop - start)/step) values start + i*step
Arange(start, stop, step) ==
    [i \in 1..Ceil(FDiv(FSub(stop, start), step)) |-> FAdd(start, FMul(R(i - 1), step))]

\* np.arange(0.01, 1, 0.01)
DeltaGrid == Arange(Rat(1, 100), R(1), Rat(1, 100))

\* [put_delta_iv(i, rr25D_iv, fly25D_iv, atm_iv) for i in np.arange(0.01, 1, 0.01)]
SampleCurve(rr, fly, atm) ==
    [i \in 1..Len(DeltaGrid) |-> put_delta_iv(DeltaGrid[i], rr, fly, atm)]

\* [0 if math.isnan(x) else x for x in put_delta_aprx]
\* the curve left as sampled
CoerceNothing(curve) == curve

CoerceNaN(curve) ==
    [i \in 1..Len(curve) |-> IF IsNaN(curve[i]) THEN R(0) ELSE curve[i]]

RECURSIVE InsertByDelta(_, _)
InsertByDelta(sorted, row) ==
    IF sorted = <<>> THEN <<row>>
    ELSE IF FLeq(Head(sorted).delta, row.delta)
         THEN <<Head(sorted)>> \o InsertByDelta(Tail(sorted), row)
         ELSE <<row>> \o sorted

RECURSIVE SortByDelta(_, _)
\* puts.sort_values('delta'); rows of equal delta keep their order, as numpy's
\* sort does on the short arrays of the model
SortByDelta(rows, i) ==
    IF i = 0 THEN <<>> ELSE InsertByDelta(SortByDelta(rows, i - 1), rows[i])

\* plt.plot(np.arange(0.01, 1, 0.01), put_delta_aprx): the points of the line
PlotLine(curve) ==
    [i \in 1..Len(curve) |-> [delta |-> DeltaGrid[i], iv |-> curve[i]]]

\* plt.scatter(sorted_puts.delta/100, sorted_puts.mid_iv): the points overlaid
ScatterPoints(rows) ==
    [i \in 1..Len(rows) |->
        [delta |-> FDiv(rows[i].delta, R(100)), iv |-> rows[i].mid_iv]]

(***************************************************************************)
(* The run of the notebook.                                                *)
(***************************************************************************)
NoCall == [delta |-> Unbound, rr |-> Unbound, fly |-> Unbound, atm |-> Unbound]

Init ==
    /\ pc = "start"
    /\ df = <<>>
    /\ maturities = <<>>
    /\ calls = <<>>
    /\ puts = <<>>
    /\ avg_price = Unbound
    /\ atm_iv = Unbound
    /\ put_25D_iv = Unbound
    /\ call_25D_iv = Unbound
    /\ rr25D_iv = Unbound
    /\ fly25D_iv = Unbound
    /\ put_delta_aprx = <<>>
    /\ sorted_puts = <<>>
    /\ plot_line = <<>>
    /\ scatter = <<>>
    /\ ev_args = NoCall
    /\ ev_ret = Unbound

\* lines 99-103: the snapshot is read into df
ReadCsv ==
    /\ pc = "start"
    /\ \E n \in 0..MaxQuotes :
          \E ix \in [1..n -> 1..QuoteCount] :
              IsSnapshotIndex(ix, n) /\ df' = SnapshotOf(ix, n)
    /\ pc' = "read"
    /\ UNCHANGED <<maturities, calls, puts, avg_price, atm_iv, put_25D_iv,
                   call_25D_iv, rr25D_iv, fly25D_iv, put_delta_aprx, sorted_puts,
                   plot_line, scatter, ev_args, ev_ret>>

\* lines 106-107; maturities[0] of an empty list raises IndexError
SelectMaturity ==
    /\ pc = "read"
    /\ \E m \in SetEnumerations(Range(Column(df, "expiration_timestamp"))) :
          /\ maturities' = m
          /\ IF m = <<>>
             THEN pc' = "IndexError" /\ df' = df
             ELSE pc' = "selected" /\ df' = SelectExpiry(df, m)
    /\ UNCHANGED <<calls, puts, avg_price, atm_iv, put_25D_iv,
                   call_25D_iv, rr25D_iv, fly25D_iv, put_delta_aprx, sorted_puts,
                   plot_line, scatter, ev_args, ev_ret>>

\* lines 111-115
Normalize ==
    /\ pc = "selected"
    /\ df' = WithMidIv(df)
    /\ calls' = BucketCalls(OfSide(df', "call"))
    /\ puts' = BucketPuts(OfSide(df', "put"))
    /\ pc' = "normalized"
    /\ UNCHANGED <<maturities, avg_price, atm_iv, put_25D_iv,
                   call_25D_iv, rr25D_iv, fly25D_iv, put_delta_aprx, sorted_puts,
                   plot_line, scatter, ev_args, ev_ret>>

\* lines 125-130
ExtractMarkers ==
    /\ pc = "normalized"
    /\ avg_price' = AvgPrice(df)
    /\ atm_iv' = MeanMidIv(AtmRows(df, avg_price'))
    /\ put_25D_iv' = MeanMidIv(Delta25Rows(puts))
    /\ call_25D_iv' = MeanMidIv(Delta25Rows(calls))
    /\ pc' = "markers"
    /\ UNCHANGED <<df, maturities, calls, puts, rr25D_iv, fly25D_iv,
                   put_delta_aprx, sorted_puts, plot_line, scatter, ev_args, ev_ret>>

\* lines 133-136
CalcParams ==
    /\ pc = "markers"
    /\ rr25D_iv' = RiskReversal(call_25D_iv, put_25D_iv)
    /\ fly25D_iv' = Butterfly(call_25D_iv, put_25D_iv, atm_iv)
    /\ pc' = "params"
    /\ UNCHANGED <<df, maturities, calls, puts, avg_price, atm_iv, put_25D_iv,
                   call_25D_iv, put_delta_aprx, sorted_puts, plot_line, scatter,
                   ev_args, ev_ret>>

\* line 157
Sample ==
    /\ pc = "params"
    /\ put_delta_aprx' = SampleCurve(rr25D_iv, fly25D_iv, atm_iv)
    /\ pc' = "sampled"
    /\ UNCHANGED <<df, maturities, calls, puts, avg_price, atm_iv, put_25D_iv,
                   call_25D_iv, rr25D_iv, fly25D_iv, sorted_puts, plot_line,
                   scatter, ev_args, ev_ret>>

\* line 158
Coerce ==
    /\ pc = "sampled"
    /\ put_delta_aprx' = CoerceNaN(put_delta_aprx)
    /\ pc' = "coerced"
    /\ UNCHANGED <<df, maturities, calls, puts, avg_price, atm_iv, put_25D_iv,
                   call_25D_iv, rr25D_iv, fly25D_iv, sorted_puts, plot_line,
                   scatter, ev_args, ev_ret>>

\* lines 180-185: the line and the overlay are drawn, then maturities[mat]
\* raises NameError, as no statement of the notebook binds mat
Plot ==
    /\ pc = "coerced"
    /\ sorted_puts' = SortByDelta(puts, Len(puts))
    /\ plot_line' = PlotLine(put_delta_aprx)
    /\ scatter' = ScatterPoints(sorted_puts')
    /\ pc' = "NameError"
    /\ UNCHANGED <<df, maturities, calls, puts, avg_price, atm_iv, put_25D_iv,
                   call_25D_iv, rr25D_iv, fly25D_iv, put_delta_aprx, ev_args, ev_ret>>

Next ==
    \/ ReadCsv
    \/ SelectMaturity
    \/ Normalize
    \/ ExtractMarkers
    \/ CalcParams
    \/ Sample
    \/ Coerce
    \/ Plot

Spec == Init /\ [][Next]_vars

(***************************************************************************)
(* The evaluator alone: one call of put_delta_iv on arguments of the        *)
(* caller's choice, NaN among them.                                        *)
(***************************************************************************)
\* delta in hundredths, one step beyond both ends of [0, 1]
EvalDeltas == {Rat(k, 100) : k \in -1..101}

EvalParams == {Rat(n, 2) : n \in (-2 * MaxParam)..(2 * MaxParam)} \cup {NaN}

InitEval ==
    /\ pc = "call"
    /\ df = <<>>
    /\ maturities = <<>>
    /\ calls = <<>>
    /\ puts = <<>>
    /\ avg_price = Unbound
    /\ atm_iv = Unbound
    /\ put_25D_iv = Unbound
    /\ call_25D_iv = Unbound
    /\ rr25D_iv = Unbound
    /\ fly25D_iv = Unbound
    /\ put_delta_aprx = <<>>
    /\ sorted_puts = <<>>
    /\ plot_line = <<>>
    /\ scatter = <<>>
    /\ ev_args \in [delta : EvalDeltas, rr : EvalParams, fly : EvalParams,
                    atm : EvalParams]
    /\ ev_ret = Unbound

\* lines 145-147: the body of put_delta_iv runs and returns
Evaluate ==
    /\ pc = "call"
    /\ ev_ret' = put_delta_iv(ev_args.delta, ev_args.rr, ev_args.fly, ev_args.atm)
    /\ pc' = "return"
    /\ UNCHANGED <<df, maturities, calls, puts, avg_price, atm_iv, put_25D_iv,
                   call_25D_iv, rr25D_iv, fly25D_iv, put_delta_aprx, sorted_puts,
                   plot_line, scatter, ev_args>>

NextEval == Evaluate

SpecEval == InitEval /\ [][NextEval]_vars

(***************************************************************************)
(* Properties.                                                             *)
(***************************************************************************)
IsNumber(x) == x.den > 0

\* the Malz value at delta = k/100 in integers: its numerator over IvScale
IvScale(rr, fly, atm) == 10000 * atm.den * rr.den * fly.den

IvScaled(k, rr, fly, atm) ==
    10000 * atm.num * rr.den * fly.den
        + 200 * rr.num * (k - 50) * atm.den * fly.den
        + 16 * fly.num * (k - 50) * (k - 50) * atm.den * rr.den

\* x is the number n/d
IsQuotient(x, n, d) == IsNumber(x) /\ x = Rat(n, d)

\* C1: for every delta in (0,1) and all numbers rr, fly and atm, put_delta_iv
\* returns atm + 2*rr*(delta - 0.5) + 16*fly*(delta - 0.5)^2.
C1_EvaluatorIsMalzFormula ==
    (/\ pc = "return"
     /\ IsNumber(ev_args.rr) /\ IsNumber(ev_args.fly) /\ IsNumber(ev_args.atm)
     /\ ev_args.delta.num > 0 /\ ev_args.delta.num < ev_args.delta.den)
    => \E k \in 1..99 :
          /\ ev_args.delta = Rat(k, 100)
          /\ IsQuotient(ev_ret, IvScaled(k, ev_args.rr, ev_args.fly, ev_args.atm),
                        IvScale(ev_args.rr, ev_args.fly, ev_args.atm))

C1_Witness ==
    /\ pc = "return"
    /\ ev_args.delta = Rat(20, 100)
    /\ ev_args.rr = Rat(-1, 2) /\ ev_args.fly = Rat(1, 2) /\ ev_args.atm = R(1)
    /\ ev_ret = Rat(202, 100)

\* the stages of the run at which the markers, and the parameters, are bound
AfterMarkers == {"markers", "params", "sampled", "coerced", "NameError"}

AfterParams == {"params", "sampled", "coerced", "NameError"}

\* C2: risk_reversal = call25_iv - put25_iv whatever atm_iv is (undefined
\* included), and butterfly = (call25_iv + put25_iv)/2 - atm_iv.
C2_ParameterFormulas ==
    pc \in AfterParams =>
        /\ (IsNumber(call_25D_iv) /\ IsNumber(put_25D_iv)) =>
              /\ IsNumber(rr25D_iv)
              /\ rr25D_iv.num * call_25D_iv.den * put_25D_iv.den
                    = rr25D_iv.den * (call_25D_iv.num * put_25D_iv.den
                                        - put_25D_iv.num * call_25D_iv.den)
        /\ (IsNumber(call_25D_iv) /\ IsNumber(put_25D_iv) /\ IsNumber(atm_iv)) =>
              /\ IsNumber(fly25D_iv)
              /\ fly25D_iv.num * 2 * call_25D_iv.den * put_25D_iv.den * atm_iv.den
                    = fly25D_iv.den
                        * (call_25D_iv.num * put_25D_iv.den * atm_iv.den
                             + put_25D_iv.num * call_25D_iv.den * atm_iv.den
                             - 2 * atm_iv.num * call_25D_iv.den * put_25D_iv.den)

C2_Witness ==
    /\ pc = "params"
    /\ IsNumber(atm_iv)
    /\ IsNumber(rr25D_iv) /\ rr25D_iv.num # 0
    /\ IsNumber(fly25D_iv) /\ fly25D_iv.num # 0

RECURSIVE MidIvSum(_, _)
\* the sum of mid_iv over the rows of index in I
MidIvSum(rows, I) ==
    IF I = {} THEN R(0)
    ELSE LET i == CHOOSE j \in I : TRUE
         IN  FAdd(rows[i].mid_iv, MidIvSum(rows, I \ {i}))

\* m is the mean of mid_iv over the rows of index in I: undefined over no row
IsMeanMidIv(m, rows, I) ==
    IF I = {} THEN IsNaN(m)
    ELSE IsNumber(m) /\ FEq(FMul(m, R(Cardinality(I))), MidIvSum(rows, I))

\* the delta bucket of a quote
BucketOf(row) ==
    IF row.option_type = "call" THEN CallBucket(row.delta) ELSE PutBucket(row.delta)

\* the quotes of df on one side and in bucket 20 or 30
Group25(side) ==
    {i \in 1..Len(df) :
        /\ df[i].option_type = side
        /\ df[i].expiration_timestamp = maturities[1]
        /\ BucketOf(df[i]) \in {R(20), R(30)}}

\* C3: the 25-delta call IV is the mean of mid_iv over exactly the call quotes of
\* the selected expiry in bucket 20 or 30, the 25-delta put IV that over exactly
\* the put quotes in bucket 20 or 30.
C3_Delta25Markers ==
    pc \in AfterMarkers =>
        /\ IsMeanMidIv(call_25D_iv, df, Group25("call"))
        /\ IsMeanMidIv(put_25D_iv, df, Group25("put"))

\* two calls of different mid_iv in the group, in buckets 20 and 30
C3_Witness ==
    /\ pc = "markers"
    /\ Cardinality(Group25("call")) = 2
    /\ \E i, j \in Group25("call") :
          /\ BucketOf(df[i]) = R(20) /\ BucketOf(df[j]) = R(30)
          /\ df[i].mid_iv # df[j].mid_iv
    /\ call_25D_iv = Rat(3, 4)

\* the sum of underlying_price over the rows
RECURSIVE PriceSum(_, _)
PriceSum(rows, i) ==
    IF i > Len(rows) THEN 0 ELSE rows[i].underlying_price + PriceSum(rows, i + 1)

\* the quotes of df whose strike is within AtmWindow of the mean underlying price
WindowAroundMean ==
    {i \in 1..Len(df) :
        Abs(df[i].strike * Len(df) - PriceSum(df, 1)) <= AtmWindow * Len(df)}

\* the quotes of df whose strike is within AtmWindow of the integer a
WindowAround(a) == {i \in 1..Len(df) : Abs(df[i].strike - a) <= AtmWindow}

\* a is the integer nearest to the mean underlying price, the even one on a tie
IsRoundedMeanPrice(a) ==
    LET twice == 2 * Abs(PriceSum(df, 1) - a * Len(df))
    IN  /\ twice <= Len(df)
        /\ twice = Len(df) => a % 2 = 0

\* C4 as claimed: the ATM IV is the mean of mid_iv over the quotes with
\* |strike - mean(underlying_price)| <= 10.
C4_AtmWindowAroundMean ==
    pc \in AfterMarkers => IsMeanMidIv(atm_iv, df, WindowAroundMean)

\* C4: the ATM IV is the mean of mid_iv over all quotes in scope, calls and puts
\* alike, with |strike - avg_price| <= 10, where avg_price is the mean underlying
\* price rounded to the nearest integer (a tie to the even one).
C4_AtmWindowAroundRoundedMean ==
    pc \in AfterMarkers =>
        /\ IsNumber(avg_price) /\ avg_price.den = 1
        /\ IsRoundedMeanPrice(avg_price.num)
        /\ IsMeanMidIv(atm_iv, df, WindowAround(avg_price.num))

\* a call and a put of different mid_iv, one inside the window at its end and one
\* outside, the mean price being no integer
C4_Witness ==
    /\ pc = "markers"
    /\ PriceSum(df, 1) # avg_price.num * Len(df)
    /\ \E i, j \in 1..Len(df) :
          /\ df[i].option_type # df[j].option_type
          /\ df[i].mid_iv # df[j].mid_iv
          /\ i \in WindowAround(avg_price.num)
          /\ j \notin WindowAround(avg_price.num)
          /\ Abs(df[i].strike - avg_price.num) = AtmWindow
    /\ IsNumber(atm_iv)

\* the distinct expiry timestamps of the rows
ExpiriesOf(rows) == {rows[i].expiration_timestamp : i \in 1..Len(rows)}

MinOf(S) == CHOOSE x \in S : \A y \in S : x <= y

\* C5: for every non-empty input, the expiry selected is the minimum of the
\* distinct expiry timestamps of the input: the step that selects the maturity
\* leaves in df the quotes of the earliest expiry of the snapshot read.
C5_EarliestExpirySelected ==
    [][(pc = "read" /\ df # <<>> /\ pc' = "selected")
          => ExpiriesOf(df') = {MinOf(ExpiriesOf(df))}]_vars

\* the stages of the run at which one expiry has been selected
AfterSelect ==
    {"selected", "normalized", "markers", "params", "sampled", "coerced", "NameError"}

\* C6: from the selection of the maturity on, so when the mean underlying price
\* and every marker are computed, every quote of df, calls and puts has the
\* selected expiry.
C6_SingleExpiryInScope ==
    pc \in AfterSelect =>
        /\ df # <<>>
        /\ ExpiriesOf(df) \cup ExpiriesOf(calls) \cup ExpiriesOf(puts) = {maturities[1]}

\* the snapshot held two maturities and the markers are about to be computed
C6_Witness ==
    /\ pc = "normalized"
    /\ Len(maturities) = 2
    /\ df # <<>>
    /\ Len(calls) + Len(puts) = Len(df)

\* the selection set of some marker is empty
SomeSelectionEmpty ==
    \/ WindowAround(avg_price.num) = {}
    \/ Group25("call") = {}
    \/ Group25("put") = {}

\* C7: when the selection set of a marker is empty the run stops with
\* InsufficientDataError at the extraction, and no undefined marker reaches the
\* parameter calculator or the evaluator.
C7_EmptySelectionRaises ==
    /\ (pc \in AfterMarkers /\ SomeSelectionEmpty) => pc = "InsufficientDataError"
    /\ pc \in AfterParams =>
          IsNumber(atm_iv) /\ IsNumber(call_25D_iv) /\ IsNumber(put_25D_iv)

\* C8: in the curve handed to the caller no sample that the evaluator left
\* undefined is a 0.
C8_UndefinedNeverZero ==
    pc \in {"coerced", "NameError"} =>
        \A i \in 1..Len(put_delta_aprx) :
            IsNaN(put_delta_iv(DeltaGrid[i], rr25D_iv, fly25D_iv, atm_iv))
                => put_delta_aprx[i] # R(0)

AfterSample == {"sampled", "coerced", "NameError"}

MarkersDefined == IsNumber(atm_iv) /\ IsNumber(call_25D_iv) /\ IsNumber(put_25D_iv)

\* the evaluator's value at delta = k/100 for the parameters of the run
MalzValue(k) ==
    IF IsNumber(rr25D_iv) /\ IsNumber(fly25D_iv) /\ IsNumber(atm_iv)
    THEN Rat(IvScaled(k, rr25D_iv, fly25D_iv, atm_iv),
             IvScale(rr25D_iv, fly25D_iv, atm_iv))
    ELSE NaN

\* C9: sampling yields exactly 99 values, the i-th the evaluator's at delta
\* i/100, a function of the parameters alone; the line drawn pairs them with a
\* second evaluation of the same grid, 99 points of strictly increasing delta.
C9_SampledCurve ==
    /\ pc = "sampled" =>
          /\ Len(put_delta_aprx) = 99
          /\ \A i \in 1..99 : put_delta_aprx[i] = MalzValue(i)
    /\ pc = "NameError" =>
          /\ Len(plot_line) = 99
          /\ \A i \in 1..99 :
                /\ plot_line[i].delta = Rat(i, 100)
                /\ plot_line[i].iv = put_delta_aprx[i]
                /\ MarkersDefined => plot_line[i].iv = MalzValue(i)
          /\ \A i \in 1..98 :
                /\ FLeq(plot_line[i].delta, plot_line[i + 1].delta)
                /\ ~FEq(plot_line[i].delta, plot_line[i + 1].delta)

\* a line drawn from defined markers, with skew and curvature
C9_Witness ==
    /\ pc = "NameError"
    /\ MarkersDefined
    /\ rr25D_iv.num # 0 /\ fly25D_iv.num # 0
    /\ plot_line[1].iv # plot_line[99].iv

\* C10: with parameters derived from defined markers the curve passes through
\* the three calibration points: iv(0.25) = put25_iv, iv(0.5) = atm_iv and
\* iv(0.75) = call25_iv.
C10_CalibrationPoints ==
    (pc \in AfterSample /\ MarkersDefined) =>
        /\ DeltaGrid[25] = Rat(1, 4) /\ put_delta_aprx[25] = put_25D_iv
        /\ DeltaGrid[50] = Half /\ put_delta_aprx[50] = atm_iv
        /\ DeltaGrid[75] = Rat(3, 4) /\ put_delta_aprx[75] = call_25D_iv

\* three markers, no two of them equal
C10_Witness ==
    /\ pc = "sampled"
    /\ MarkersDefined
    /\ call_25D_iv # put_25D_iv /\ atm_iv # put_25D_iv /\ atm_iv # call_25D_iv
    /\ put_delta_aprx[25] = put_25D_iv

(***************************************************************************)
(* The parameter calculator and the evaluator on markers of the caller's   *)
(* choice: lines 133-136, then one call of put_delta_iv with the           *)
(* parameters derived.                                                     *)
(***************************************************************************)
MarkerInputs == {Rat(k, 100) : k \in 20..MaxMarkerPct}

\* the deltas the curve is asked at
RoundTripDeltas == {Rat(20, 100), Rat(25, 100), Half, Rat(75, 100)}

InitRoundTrip ==
    /\ pc = "given"
    /\ df = <<>>
    /\ maturities = <<>>
    /\ calls = <<>>
    /\ puts = <<>>
    /\ avg_price = Unbound
    /\ atm_iv \in MarkerInputs
    /\ put_25D_iv \in MarkerInputs
    /\ call_25D_iv \in MarkerInputs
    /\ rr25D_iv = Unbound
    /\ fly25D_iv = Unbound
    /\ put_delta_aprx = <<>>
    /\ sorted_puts = <<>>
    /\ plot_line = <<>>
    /\ scatter = <<>>
    /\ ev_args = NoCall
    /\ ev_ret = Unbound

\* lines 133-136 on the markers given
DeriveParams ==
    /\ pc = "given"
    /\ rr25D_iv' = RiskReversal(call_25D_iv, put_25D_iv)
    /\ fly25D_iv' = Butterfly(call_25D_iv, put_25D_iv, atm_iv)
    /\ pc' = "derived"
    /\ UNCHANGED <<df, maturities, calls, puts, avg_price, atm_iv, put_25D_iv,
                   call_25D_iv, put_delta_aprx, sorted_puts, plot_line, scatter,
                   ev_args, ev_ret>>

\* put_delta_iv(delta, rr25D_iv, fly25D_iv, atm_iv), as line 157 calls it
EvaluateDerived ==
    /\ pc = "derived"
    /\ \E d \in RoundTripDeltas :
          ev_args' = [delta |-> d, rr |-> rr25D_iv, fly |-> fly25D_iv, atm |-> atm_iv]
    /\ ev_ret' = put_delta_iv(ev_args'.delta, ev_args'.rr, ev_args'.fly, ev_args'.atm)
    /\ pc' = "returned"
    /\ UNCHANGED <<df, maturities, calls, puts, avg_price, atm_iv, put_25D_iv,
                   call_25D_iv, rr25D_iv, fly25D_iv, put_delta_aprx, sorted_puts,
                   plot_line, scatter>>

NextRoundTrip == DeriveParams \/ EvaluateDerived

SpecRoundTrip == InitRoundTrip /\ [][NextRoundTrip]_vars

\* the markers atm = 0.20, call25 = 0.22, put25 = 0.24, asked at delta 0.20
RoundTripCase ==
    /\ pc = "returned"
    /\ atm_iv = Rat(20, 100) /\ call_25D_iv = Rat(22, 100) /\ put_25D_iv = Rat(24, 100)
    /\ ev_args.delta = Rat(20, 100)

\* C11 as claimed: for these markers risk_reversal = -0.02, butterfly = 0.03 and
\* iv(0.20) = 0.20 + 0.012 + 0.432 = 0.644.
C11_RoundTrip0644 ==
    RoundTripCase =>
        /\ rr25D_iv = Rat(-2, 100)
        /\ fly25D_iv = Rat(3, 100)
        /\ ev_ret = Rat(644, 1000)

\* C11: for these markers risk_reversal = -0.02, butterfly = 0.03 and
\* iv(0.20) = 0.20 + 0.012 + 0.0432 = 0.2552.
C11_RoundTrip02552 ==
    RoundTripCase =>
        /\ rr25D_iv = Rat(-2, 100)
        /\ fly25D_iv = Rat(3, 100)
        /\ 10000 * ev_ret.num = (2000 + 120 + 432) * ev_ret.den
        /\ ev_ret.den > 0

C11_Witness ==
    /\ RoundTripCase
    /\ ev_args.rr = Rat(-2, 100) /\ ev_args.fly = Rat(3, 100)
    /\ ev_ret = Rat(2552, 10000)

(***************************************************************************)
(* The normalizer on a snapshot of one quote whose delta runs over a fine  *)
(* grid of [-1, 0] (puts) and [0, 1] (calls): lines 111-115.               *)
(***************************************************************************)
BucketDeltas == {Rat(k, 100 * DeltaResolution) : k \in 0..(100 * DeltaResolution)}

OneQuote(side, d) ==
    [option_type |-> side, strike |-> Strikes[1], bid_iv |-> R(1), ask_iv |-> R(2),
     underlying_price |-> UnderlyingPrices[1], expiration_timestamp |-> Expiries[1],
     delta |-> IF side = "call" THEN d ELSE FSub(R(0), d)]

InitBucket ==
    /\ pc = "selected"
    /\ \E side \in Range(Sides), d \in BucketDeltas : df = <<OneQuote(side, d)>>
    /\ maturities = <<Expiries[1]>>
    /\ calls = <<>>
    /\ puts = <<>>
    /\ avg_price = Unbound
    /\ atm_iv = Unbound
    /\ put_25D_iv = Unbound
    /\ call_25D_iv = Unbound
    /\ rr25D_iv = Unbound
    /\ fly25D_iv = Unbound
    /\ put_delta_aprx = <<>>
    /\ sorted_puts = <<>>
    /\ plot_line = <<>>
    /\ scatter = <<>>
    /\ ev_args = NoCall
    /\ ev_ret = Unbound

NextBucket == Normalize

SpecBucket == InitBucket /\ [][NextBucket]_vars

\* the bucketed copy of the one quote
Bucketed == calls \o puts

\* |delta| * 100 of the one quote, as observed
AbsDeltaPct == FMul(FAbs(df[1].delta), R(100))

\* C12: a put with delta d in [-1, 0] gets the bucket the call rule gives to |d|,
\* and every bucket of either side is one of 0, 10, ..., 100.
C12_BucketSignInvariant ==
    pc = "normalized" =>
        /\ \A i \in 1..Len(puts) : puts[i].delta = CallBucket(FAbs(df[i].delta))
        /\ \A i \in 1..Len(Bucketed) :
              \E m \in 0..10 : Bucketed[i].delta = [num |-> 10 * m, den |-> 1]

C12_Witness ==
    /\ pc = "normalized"
    /\ Len(puts) = 1
    /\ df[1].delta = Rat(-35, 100)
    /\ puts[1].delta = R(40)

\* C16: the bucket is the multiple of 10 nearest to |delta|*100, a tie going to
\* the multiple whose tenth is even, on both sides; so the quote is in the
\* 25-delta group exactly when 15 <= |delta|*100 < 35.
C16_NearestTenHalfEven ==
    pc = "normalized" =>
        \A i \in 1..Len(Bucketed) :
            LET x == AbsDeltaPct
                b == Bucketed[i].delta.num
                twiceDist == 2 * Abs(x.num - b * x.den)
            IN  /\ Bucketed[i].delta.den = 1
                /\ b % 10 = 0
                /\ twiceDist <= 10 * x.den
                /\ twiceDist = 10 * x.den => (b \div 10) % 2 = 0
                /\ (Len(Delta25Rows(Bucketed)) = 1)
                       <=> (15 * x.den <= x.num /\ x.num < 35 * x.den)
                /\ x = R(15) => Bucketed[i].delta = R(20)
                /\ x = R(25) => Bucketed[i].delta = R(20)
                /\ x = R(35) => Bucketed[i].delta = R(40)

\* the tie 25 goes down to 20 and stays in the group
C16_Witness ==
    /\ pc = "normalized"
    /\ Len(puts) = 1
    /\ AbsDeltaPct = R(25)
    /\ puts[1].delta = R(20)
    /\ Len(Delta25Rows(puts)) = 1

(***************************************************************************)
(* The evaluator's symmetry and its domain, on SpecEval.                   *)
(***************************************************************************)
\* a call that returned, on numbers, at a delta of (0, 1) other than 0.50
MirrorCase ==
    /\ pc = "return"
    /\ IsNumber(ev_args.rr) /\ IsNumber(ev_args.fly) /\ IsNumber(ev_args.atm)
    /\ FLeq(Rat(1, 100), ev_args.delta) /\ FLeq(ev_args.delta, Rat(99, 100))
    /\ ev_args.delta # Half

\* put_delta_iv at the delta mirrored about 0.50
MirrorValue ==
    put_delta_iv(FSub(R(1), ev_args.delta), ev_args.rr, ev_args.fly, ev_args.atm)

\* C13: iv(0.5 + d) - iv(0.5 - d) = 4*rr*d for 0 < |d| < 0.5, every rr, fly and
\* atm: the two values are equal when rr = 0 and differ by exactly 4*rr*d
\* otherwise.
C13_SymmetricWithoutSkew ==
    MirrorCase =>
        LET d == FSub(ev_args.delta, Half)
        IN  /\ FSub(ev_ret, MirrorValue) = FMul(FMul(R(4), ev_args.rr), d)
            /\ ev_args.rr = R(0) => ev_ret = MirrorValue
            /\ ev_args.rr # R(0) => ev_ret # MirrorValue

C13_Witness ==
    /\ MirrorCase
    /\ ev_args.rr = R(0) /\ ev_args.fly = Half /\ ev_args.atm = R(1)
    /\ ev_args.delta = Rat(75, 100)
    /\ ev_ret = Rat(3, 2)
    /\ MirrorValue = Rat(3, 2)

\* C14: the evaluator hands back no value for a delta outside the open interval
\* (0, 1): every call that returns was made with 0 < delta < 1.
C14_OutOfDomainRejected ==
    pc = "return" =>
        /\ ev_args.delta # R(0)
        /\ FLeq(R(0), ev_args.delta)
        /\ ev_args.delta # R(1)
        /\ FLeq(ev_args.delta, R(1))

(***************************************************************************)
(* The overlay, the coerced curve and the markers' range, on Spec.         *)
(***************************************************************************)
\* the put quotes of df
PutQuotes == {i \in 1..Len(df) : df[i].option_type = "put"}

\* C15: the put-side pairs handed to the overlay are the observed ones: each put
\* quote of the selected expiry gives one pair of its absolute delta as a
\* fraction, as quoted, and its mid_iv.
C15_OverlayObservedDelta ==
    pc = "NameError" =>
        /\ Len(scatter) = Cardinality(PutQuotes)
        /\ \E f \in [1..Len(scatter) -> PutQuotes] :
              /\ \A i, j \in 1..Len(scatter) : f[i] = f[j] => i = j
              /\ \A i \in 1..Len(scatter) :
                    /\ scatter[i].delta = FAbs(df[f[i]].delta)
                    /\ scatter[i].iv = df[f[i]].mid_iv

\* C17: after the coercion the curve has 99 values; if a marker is undefined the
\* butterfly is undefined and all 99 are 0, and if all three are defined each
\* value is the evaluator's, a number the coercion left alone.
C17_CurveAllOrNothing ==
    pc = "coerced" =>
        /\ Len(put_delta_aprx) = 99
        /\ ~MarkersDefined =>
              /\ IsNaN(fly25D_iv)
              /\ \A i \in 1..99 : put_delta_aprx[i] = R(0)
        /\ MarkersDefined =>
              \A i \in 1..99 :
                  IsNumber(put_delta_aprx[i]) /\ put_delta_aprx[i] = MalzValue(i)

\* the put marker alone undefined, the ATM marker not 0: the whole curve is 0
C17_Witness ==
    /\ pc = "coerced"
    /\ IsNumber(atm_iv) /\ atm_iv # R(0)
    /\ IsNumber(call_25D_iv)
    /\ IsNaN(put_25D_iv)
    /\ IsNumber(rr25D_iv) = FALSE
    /\ \A i \in 1..99 : put_delta_aprx[i] = R(0)

\* m, when defined, is not negative and lies between two mid_iv of the rows in I
WithinMidIvRange(m, I) ==
    IsNumber(m) =>
        /\ FLeq(R(0), m)
        /\ \E i, j \in I : FLeq(df[i].mid_iv, m) /\ FLeq(m, df[j].mid_iv)

\* C18: with bid_iv and ask_iv not negative, mid_iv is half their sum for every
\* quote, and every defined marker is not negative and lies between the least
\* and the greatest mid_iv of the quotes it is the mean of.
C18_MarkersWithinRange ==
    pc \in AfterMarkers =>
        /\ \A i \in 1..Len(df) :
              /\ FLeq(R(0), df[i].bid_iv) /\ FLeq(R(0), df[i].ask_iv)
              /\ FMul(R(2), df[i].mid_iv) = FAdd(df[i].bid_iv, df[i].ask_iv)
        /\ WithinMidIvRange(atm_iv, WindowAround(avg_price.num))
        /\ WithinMidIvRange(call_25D_iv, Group25("call"))
        /\ WithinMidIvRange(put_25D_iv, Group25("put"))

\* a call marker strictly between the mid_iv of two calls of its group
C18_Witness ==
    /\ pc = "markers"
    /\ IsNumber(call_25D_iv)
    /\ \E i, j \in Group25("call") :
          /\ ~FLeq(call_25D_iv, df[i].mid_iv)
          /\ ~FLeq(df[j].mid_iv, call_25D_iv)

====
